---- MODULE Spec2Model ----
(***************************************************************************)
(* Ankify (src/ankify.py): the resumable batch-generation and refinement   *)
(* pipeline of MedicalAnkiGenerator.                                       *)
(*                                                                         *)
(*   Spec       process_lecture, run after run on one document path, with   *)
(*              process termination at any point.  The document may have   *)
(*              been replaced by one with more or fewer slides between two *)
(*              runs.  The service answers a generation request slide by   *)
(*              slide (omitted, no cards, a card) and a refinement request *)
(*              with the cards it was sent; its transport may fail.        *)
(*   SpecMock   the same, against one deterministic mock service.          *)
(*   SpecLoose  the same, against a service that returns every slide and   *)
(*              whose cards may lack a cloze marker.                       *)
(*   SpecModes  as Spec, the program being started in either card mode     *)
(*              from one run to the next.                                  *)
(*   SpecFolder process_folder over a folder of MaxDocs documents, each call *)
(*              of process_lecture being one step with one of its outcomes. *)
(*   SpecMain   the program started on a document (Spec) or on a folder    *)
(*              (SpecFolder), as main dispatches.                          *)
(*   SpecAny    one fresh budget-mode run of process_lecture against       *)
(*              arbitrary parsed generation replies.                       *)
(*   SpecText   the post-processing of one card text, applied once after    *)
(*              generation and once more after refinement.                 *)
(*   SpecBatch  one call of analyze_slides_batch on a list of pending      *)
(*              slides, against arbitrary sequences of attempt outcomes    *)
(*              and arbitrary parsed replies.                              *)
(*   SpecRefine one call of critique_and_refine_cards, against arbitrary   *)
(*              attempt outcomes and arbitrary parsed replies.             *)
(***************************************************************************)
EXTENDS Integers, Sequences, FiniteSets, TLC

\* ------------------------------------------------------------------ bounds
\* Largest number of slides a document has.
MaxSlides == 3
\* Largest number of entries in a parsed generation reply.
MaxReply == 2

\* ------------------------------------------------------- program constants
\* analyze_slides_batch(..., max_retries: int = 3)
GenMaxRetries == 3

\* A value no slide id, card list or result equals.
NoPage == -1
Nil == "nil"

\* ------------------------------------------------------------ card texts
\* A card text is abstracted to what the pipeline reads of it: the set of
\* cloze group indices of its markers ({} = no "{{c" marker), whether it holds
\* a key term outside every marker, and how many <b> levels wrap that term.
Text(groups, kw, bold) == [groups |-> groups, kw |-> kw, bold |-> bold]

\* re.sub(r'\{\{c\d+::', '{{c1::', text) when single_card_mode.
convert_to_single_card_format(single, text) ==
    IF single
      THEN [text EXCEPT !.groups = IF text.groups = {} THEN {} ELSE {1}]
      ELSE text

\* Every key term outside a cloze marker is wrapped in <b>..</b>; the term
\* inside an existing <b>..</b> still matches \b(term)\b and is wrapped again.
add_bold_formatting(text) ==
    IF text.kw THEN [text EXCEPT !.bold = text.bold + 1] ELSE text

\* The cards a generation reply may carry for one slide.
GenCards == { [text |-> Text({1, 2}, TRUE, 0)], [text |-> Text({}, FALSE, 0)] }
CardLists == {<<>>} \cup { <<c>> : c \in GenCards }

\* --------------------------------------------------- card texts, token-wise
\* A card text as the sequence of what the two transforms read of it: the
\* openings "{{c1::" and "{{c2::" of a cloze marker, the closing "}}", a key
\* term of key_patterns, any other word, and the tags "<b>" and "</b>".
MaxText == 4
Tokens == {"{{c1::", "{{c2::", "}}", "term", "word"}
Opening == {"{{c1::", "{{c2::"}
Texts == UNION { [1..n -> Tokens] : n \in 0..MaxText }

\* text.count(what) over the first n tokens: an opening holds one "{{".
CountBefore(tokens, n, what) ==
    Cardinality({ i \in 1..n : tokens[i] \in what })

\* replace_if_not_in_cloze: the term at position i is taken to stand in a
\* marker when the text before it holds more "{{" than "}}".
TakenAsInCloze(tokens, i) ==
    CountBefore(tokens, i - 1, Opening) > CountBefore(tokens, i - 1, {"}}"})

\* re.sub(pattern, replace_if_not_in_cloze, text): every key term, one inside
\* <b>..</b> included, is wrapped in <b>..</b> unless taken as in a marker.
RECURSIVE BoldFrom(_, _)
BoldFrom(tokens, i) ==
    IF i > Len(tokens) THEN <<>>
    ELSE (IF tokens[i] = "term" /\ ~TakenAsInCloze(tokens, i)
            THEN <<"<b>", "term", "</b>">>
            ELSE <<tokens[i]>>)
         \o BoldFrom(tokens, i + 1)

\* add_bold_formatting on a token sequence.
BoldTokens(tokens) == BoldFrom(tokens, 1)

\* convert_to_single_card_format on a token sequence.
SingleTokens(single, tokens) ==
    IF single
      THEN [i \in 1..Len(tokens) |->
               IF tokens[i] \in Opening THEN "{{c1::" ELSE tokens[i]]
      ELSE tokens

\* The processing of a card text after generation and in
\* _process_refined_cards: convert, then bold.
ProcessText(single, tokens) == BoldTokens(SingleTokens(single, tokens))

\* ------------------------------------------------------- parsed replies
\* The page ids an entry of a reply may carry: those of the slides, one past
\* them, and 0 (a reply that counts its slides from 0).
PageIds == 0..(MaxSlides + 1)
ReplyEntries == [page_num : PageIds \cup {NoPage}, cards : CardLists]
RepliesUpTo(n) == UNION { [1..k -> ReplyEntries] : k \in 0..n }
Replies == RepliesUpTo(MaxReply)

\* item.get('page_num', default)
PageNumOr(item, default) ==
    IF item.page_num = NoPage THEN default ELSE item.page_num

\* The ascending sequence of a finite set of integers.
RECURSIVE SetToSeq(_)
SetToSeq(S) ==
    IF S = {} THEN <<>>
    ELSE LET m == CHOOSE x \in S : \A y \in S : x <= y
         IN  <<m>> \o SetToSeq(S \ {m})

\* list.sort(key=lambda x: x.get('page_num', 0)): a stable sort.
RECURSIVE InsertByPage(_, _)
InsertByPage(sorted, item) ==
    IF sorted = <<>> THEN <<item>>
    ELSE IF PageNumOr(sorted[Len(sorted)], 0) <= PageNumOr(item, 0)
           THEN Append(sorted, item)
           ELSE Append(InsertByPage(SubSeq(sorted, 1, Len(sorted) - 1), item),
                       sorted[Len(sorted)])

RECURSIVE SortByPage(_)
SortByPage(s) ==
    IF s = <<>> THEN <<>>
    ELSE InsertByPage(SortByPage(SubSeq(s, 1, Len(s) - 1)), s[Len(s)])

\* expected_slide_nums = set(range(1, len(images) + 1))
ExpectedSlideNums(imgs) == 1..Len(imgs)

\* MissingSlides, were no slide ever found missing.
NoMissingSlides(imgs, reply) == {}

\* missing_slides = expected_slide_nums - slide_nums_in_response
MissingSlides(imgs, reply) ==
    ExpectedSlideNums(imgs) \ { PageNumOr(reply[i], 0) : i \in 1..Len(reply) }

\* The per-card processing of a returned slide entry.
ProcessCards(single, cards) ==
    [i \in 1..Len(cards) |->
        [cards[i] EXCEPT !.text =
            add_bold_formatting(convert_to_single_card_format(single, @))]]

\* The value analyze_slides_batch returns for a reply that parsed: the missing
\* slides appended as empty entries, the list sorted, each entry processed.
Reconcile(imgs, reply, single) ==
    LET missing == SetToSeq(MissingSlides(imgs, reply))
        filled  == reply \o [i \in 1..Len(missing) |->
                                [page_num |-> missing[i], cards |-> <<>>]]
        sorted  == SortByPage(filled)
    IN  [i \in 1..Len(sorted) |->
            [page_num |-> PageNumOr(sorted[i], 1),
             cards    |-> ProcessCards(single, sorted[i].cards)]]


\* ------------------------------------------------------------------ state
VARIABLES
    \* the post-processing of one card text
    card_text,              \* the text of a card as the service wrote it
    processed_text,         \* the text after the processing that follows generation
    reprocessed_text        \* the text after _process_refined_cards processed it again

VARIABLES
    \* process_folder
    folder_pc,              \* "idle", "loop" (inside the for loop), "done"
    folder_resume,          \* the resume argument
    folder_progress_file,   \* folder_progress.json on disk
    completed_files,        \* the set completed_files
    successful,             \* the counter successful
    file_index,             \* position of the loop in pdf_files
    startFiles,             \* completed_files as loaded before the loop
    processedFiles,         \* documents process_lecture was called on in this invocation
    raisedFiles,            \* documents whose try block ended in the except clause
    prevRaised,             \* raisedFiles of the invocation before
    finishedFiles           \* documents process_lecture has returned a package for, in any invocation

VARIABLES
    single_card_mode,   \* self.single_card_mode
    add_hints,          \* self.add_hints
    svc,                \* the remote service: AnyService, or a deterministic mock
    pc,                 \* where the process is; "idle" = no process running
    ret,                \* how the last process_lecture ended
    prevRet,            \* "raised_package" in a run that follows a packaging failure
    N,                  \* len(images): the slides of the document, this run
    resume,             \* process_lecture's resume argument
    budget_mode,        \* process_lecture's budget_mode argument
    ckpt,               \* the checkpoint file <lecture>_progress.pkl
    all_cards_data,     \* progress_data['cards_data']
    completed_slides,   \* the set completed_slides
    startCompleted,     \* whether the run loaded a checkpoint, and what it held
    saved,              \* whether the run has finished a save_progress
    lastSaved,          \* what the last finished save_progress wrote (Absent: none,
                        \* or deleted since)
    images,             \* the (page ids of the) slides given to analyze_slides_batch
    reply,              \* the reply analyze_slides_batch parsed (<<>>: none)
    attempt,            \* the attempt loop's counter
    entered,            \* refined_cards as the running stage's loop found it
    parsedSeen,         \* whether an attempt of the running loop parsed a reply
    lastGood,           \* the card set the last successful stage produced (None: none)
    retry_after,        \* the wait hint (seconds) the reply of the generation loop's
                        \* last failed attempt carried (None: none)
    sleeps,             \* the waits (lower bounds, seconds) slept in the running loop
    lastLoop,           \* the last attempt loop that ended: its stage, attempts and
                        \* sleeps, whether it got a result, what its last attempt
                        \* met, the card set it found, whether an attempt parsed
    batch_results,      \* what analyze_slides_batch returned
    requests,           \* the requests issued since the run (or the call) began
    stage,              \* the refinement stage whose loop is running
    refined_cards,      \* critique_and_refine_cards' refined_cards (None at first)
    all_decisions,      \* its all_decisions
    hint_decisions,     \* its hint_decisions
    grouping_decisions, \* its grouping_decisions
    ambiguity_decisions, \* its ambiguity_decisions
    decisions,          \* its decisions
    log,                \* the refinement log the call has written (None: not written)
    refined_cards_data, \* what critique_and_refine_cards returned (None: nothing yet)
    packaged            \* the cards create_anki_package has written (None: nothing)

cfgVars == <<single_card_mode, add_hints, svc>>
runVars == <<N, resume, budget_mode, startCompleted, prevRet>>
diskVars == <<ckpt, lastSaved>>
progVars == <<all_cards_data, completed_slides, saved>>
loopVars == <<attempt, sleeps, lastLoop, entered, parsedSeen, lastGood, retry_after>>
batchVars == <<images, batch_results, reply>>
refVars == <<stage, refined_cards, all_decisions, hint_decisions, grouping_decisions,
             ambiguity_decisions, decisions, log, refined_cards_data>>
folderVars == <<folder_pc, folder_resume, folder_progress_file, completed_files,
                successful, file_index, startFiles, processedFiles, raisedFiles,
                prevRaised, finishedFiles>>
textVars == <<card_text, processed_text, reprocessed_text>>
vars == <<cfgVars, runVars, diskVars, progVars, loopVars, batchVars, pc, ret, requests,
          refVars, packaged, folderVars, textVars>>

\* A progress file: absent, present but not unpicklable, or holding a record.
ProgressFile(state, completed, cards) ==
    [state |-> state, completed_slides |-> completed, cards_data |-> cards]
Absent == ProgressFile("absent", {}, <<>>)
Corrupt == ProgressFile("corrupt", {}, <<>>)

\* Python's None and a value that is not None.
None == <<>>
Some(x) == <<x>>

LoopEnd(name, attempts, slept, ok, met, found, parsed) ==
    [stage |-> name, attempts |-> attempts, sleeps |-> slept, ok |-> ok, met |-> met,
     entered |-> found, parsed |-> parsed]
NoLoop == LoopEnd("none", 0, <<>>, FALSE, Nil, None, FALSE)
NotLoaded == [loaded |-> FALSE, completed |-> {}, cards |-> <<>>]

RECURSIVE Pow2(_)
Pow2(n) == IF n = 0 THEN 1 ELSE 2 * Pow2(n - 1)

SeqRange(s) == { s[i] : i \in 1..Len(s) }

\* ------------------------------------------------------ the mock service
\* A deterministic service answers a generation request slide by slide: it
\* omits the slide, returns it with no cards, or returns it with a card.
SlideAnswers == [1..MaxSlides -> {"omit", "empty", "cards"}]
MockServices == { [mode |-> "mock", slide |-> f] : f \in SlideAnswers }

\* A service that may give any reply, and one that answers each request slide
\* by slide as some mock would.
AnyService == [mode |-> "any", slide |-> [p \in 1..MaxSlides |-> "omit"]]
SlideService == [mode |-> "slides", slide |-> [p \in 1..MaxSlides |-> "omit"]]

MockCard == [text |-> Text({1, 2}, TRUE, 0)]
\* A card whose text holds no cloze marker.
PlainCard == [text |-> Text({}, FALSE, 0)]

\* A service that returns every slide: with no card, with a card that has
\* cloze markers, or with one that has none.
LooseAnswers == [1..MaxSlides -> {"empty", "cards", "plain"}]
LooseService == [mode |-> "loose", slide |-> [p \in 1..MaxSlides |-> "omit"]]

MockReply(service, imgs) ==
    LET kept == SelectSeq(imgs, LAMBDA p : service[p] # "omit")
    IN  [i \in 1..Len(kept) |->
            [page_num |-> kept[i],
             cards |-> CASE service[kept[i]] = "cards" -> <<MockCard>>
                         [] service[kept[i]] = "plain" -> <<PlainCard>>
                         [] OTHER -> <<>>]]

\* ------------------------------------------------- analyze_slides_batch
\* What an attempt that does not return a result may meet: a status other than
\* 200, the three except clauses, a reply without a JSON array, a reply whose
\* array does not parse.
GenFailures ==
    {"http_error", "timeout", "connection_error", "exception", "no_json", "json_error"}

\* timeout_seconds = max(600, (len(images) * 30) + 300), doubled in flex mode.
timeout_seconds(n, flex_mode) ==
    LET t == IF 30 * n + 300 > 600 THEN 30 * n + 300 ELSE 600
    IN  IF flex_mode THEN 2 * t ELSE t

\* session.post(..., timeout=1200) in each of the four refinement stages,
\* whatever the number n of cards in the payload.
StageTimeout(name, n) == 1200

\* A reply of status 429 may carry a Retry-After header.  The session's
\* adapter (Retry with status_forcelist) handles 429 below the loop; what
\* reaches the loop is a status other than 200 or the exception the adapter
\* raises, and in both cases the header is the reply's.
RetryAfterHints == {7}
HintsOf(kind) ==
    IF kind \in {"http_error", "exception"}
      THEN {None} \cup { Some(h) : h \in RetryAfterHints }
      ELSE {None}

\* wait_time = (2 ** attempt) + random.uniform(0, 1): its lower bound.
GenWait(k) == Pow2(k)

GenSleeps(k, slept) == IF k > 0 THEN Append(slept, GenWait(k)) ELSE slept

Request(name, slides, cards) == [stage |-> name, slides |-> slides, cards |-> cards]
GenRequest(imgs) == Request("generate", imgs, <<>>)

\* The parsed replies the service may give to a generation request.
GenReplies(imgs) ==
    CASE svc.mode = "any"    -> Replies
      [] svc.mode = "mock"   -> {MockReply(svc.slide, imgs)}
      [] svc.mode = "slides" -> { MockReply(f, imgs) : f \in SlideAnswers }
      [] svc.mode = "loose"  -> { MockReply(f, imgs) : f \in LooseAnswers }

\* One iteration of `for attempt in range(max_retries)` whose reply parses:
\* the function returns processed_results.
AnalyzeSucceeds ==
    /\ pc = "analyze"
    /\ attempt < GenMaxRetries
    /\ \E parsed \in GenReplies(images) :
         /\ reply' = parsed
         /\ batch_results' = Reconcile(images, parsed, single_card_mode)
    /\ sleeps' = <<>>
    /\ lastLoop' = LoopEnd("generate", attempt + 1, GenSleeps(attempt, sleeps),
                            TRUE, "reply", None, TRUE)
    /\ requests' = requests \cup {GenRequest(images)}
    /\ pc' = "analyzed"
    /\ retry_after' = None
    /\ UNCHANGED <<textVars, folderVars, cfgVars, runVars, diskVars, progVars, ret, images, attempt,
                   entered, parsedSeen, lastGood, refVars, packaged>>

\* One iteration that fails, other than the last: the loop goes on.
AnalyzeRetries ==
    /\ pc = "analyze"
    /\ attempt + 1 < GenMaxRetries
    /\ \E kind \in GenFailures : retry_after' \in HintsOf(kind)
    /\ sleeps' = GenSleeps(attempt, sleeps)
    /\ attempt' = attempt + 1
    /\ requests' = requests \cup {GenRequest(images)}
    /\ UNCHANGED <<textVars, folderVars, cfgVars, runVars, diskVars, progVars, pc, ret, batchVars, lastLoop,
                   entered, parsedSeen, lastGood, refVars, packaged>>

\* The last iteration fails: the loop ends and the function returns [].
AnalyzeExhausted ==
    /\ pc = "analyze"
    /\ attempt + 1 = GenMaxRetries
    /\ \E kind \in GenFailures :
         lastLoop' = LoopEnd("generate", attempt + 1, GenSleeps(attempt, sleeps),
                             FALSE, kind, None, FALSE)
    /\ batch_results' = <<>>
    /\ sleeps' = <<>>
    /\ attempt' = attempt + 1
    /\ requests' = requests \cup {GenRequest(images)}
    /\ pc' = "analyzed"
    /\ retry_after' = None
    /\ UNCHANGED <<textVars, folderVars, cfgVars, runVars, diskVars, progVars, ret, images, reply, entered,
                   parsedSeen, lastGood, refVars, packaged>>

\* --------------------------------------------------------- ProgressStore
\* load_progress, were the file never read.
LoadsNothing(file) == Absent

\* load_progress, were a file that does not unpickle handed on as a record.
LoadsAnyFile(file) == file

\* load_progress: the unpickled record, or None when the file is absent or
\* does not unpickle.
load_progress(file) == IF file.state = "ok" THEN file ELSE Absent

\* The record process_lecture starts from when none was loaded.
FreshProgress == ProgressFile("ok", {}, <<>>)

\* RemainingImages, were the completed set ignored.
AllImages(n, completed) == SetToSeq(1..n)

\* remaining_images: the slides whose page id is not in the completed set.
RemainingImages(n, completed) == SetToSeq((1..n) \ completed)

\* for slide_data in batch_results: ... all_cards_data.append(slide_data)
MergeCards(cards_data, results) ==
    cards_data \o SelectSeq(results, LAMBDA e : e.cards # <<>>)

\* completed_slides.add(slide_data['page_num'])
MergeCompleted(completed, results) ==
    completed \cup { results[i].page_num : i \in 1..Len(results) }

\* What leaves the process when it ends: its memory.
Forgotten ==
    /\ N' = 0
    /\ resume' = FALSE
    /\ budget_mode' = FALSE
    /\ startCompleted' = NotLoaded
    /\ prevRet' = Nil
    /\ saved' = FALSE
    /\ all_cards_data' = <<>>
    /\ completed_slides' = {}
    /\ images' = <<>>
    /\ batch_results' = <<>>
    /\ reply' = <<>>
    /\ attempt' = 0
    /\ sleeps' = <<>>
    /\ lastLoop' = NoLoop
    /\ entered' = None
    /\ parsedSeen' = FALSE
    /\ lastGood' = None
    /\ retry_after' = None
    /\ requests' = {}
    /\ stage' = Nil
    /\ refined_cards' = None
    /\ all_decisions' = <<>>
    /\ hint_decisions' = <<>>
    /\ grouping_decisions' = <<>>
    /\ ambiguity_decisions' = <<>>
    /\ decisions' = <<>>
    /\ log' = None
    /\ refined_cards_data' = None
    /\ packaged' = None

\* -------------------------------------------------------- process_lecture
\* Lines 1855-1896: load the checkpoint, render the slides, work out what
\* remains, and call analyze_slides_batch when something does.
StartRun ==
    /\ pc = "idle"
    /\ \E n \in 1..MaxSlides, r \in BOOLEAN, b \in BOOLEAN :
         LET loaded   == IF r THEN load_progress(ckpt) ELSE Absent
             progress == IF loaded = Absent THEN FreshProgress ELSE loaded
             remaining == RemainingImages(n, progress.completed_slides)
         IN  /\ N' = n
             /\ resume' = r
             /\ budget_mode' = b
             /\ startCompleted' = [loaded |-> loaded # Absent,
                                    completed |-> loaded.completed_slides,
                                    cards |-> loaded.cards_data]
             /\ all_cards_data' = progress.cards_data
             /\ completed_slides' = progress.completed_slides
             /\ images' = remaining
             /\ pc' = IF remaining # <<>> THEN "analyze" ELSE "dispatch"
    /\ prevRet' = IF ret = "raised_package" THEN ret ELSE Nil
    /\ ret' = Nil
    /\ saved' = FALSE
    /\ batch_results' = <<>>
    /\ reply' = <<>>
    /\ requests' = {}
    /\ UNCHANGED <<textVars, folderVars, cfgVars, diskVars, loopVars, refVars, packaged>>

\* Lines 1898-1907 up to open(progress_file, 'wb'): the batch is merged and
\* the checkpoint file is opened for writing, which truncates it.
MergeAndOpen ==
    /\ pc = "analyzed"
    /\ batch_results # <<>>
    /\ all_cards_data' = MergeCards(all_cards_data, batch_results)
    /\ completed_slides' = MergeCompleted(completed_slides, batch_results)
    /\ ckpt' = Corrupt
    /\ pc' = "saving"
    /\ UNCHANGED <<textVars, folderVars, cfgVars, runVars, lastSaved, saved, loopVars, batchVars, ret,
                   requests, refVars, packaged>>

\* pickle.dump(progress_data, f) and the close of the file.
SaveProgress ==
    /\ pc = "saving"
    /\ ckpt' = ProgressFile("ok", completed_slides, all_cards_data)
    /\ lastSaved' = ckpt'
    /\ saved' = TRUE
    /\ pc' = "dispatch"
    /\ UNCHANGED <<textVars, folderVars, cfgVars, runVars, all_cards_data, completed_slides, loopVars,
                   batchVars, ret, requests, refVars, packaged>>

\* The failed batch, were the checkpoint removed on the way out.
GenerationFailedDeletes ==
    /\ pc = "analyzed"
    /\ batch_results = <<>>
    /\ pc' = "idle"
    /\ ret' = "none"
    /\ Forgotten
    /\ ckpt' = Absent
    /\ lastSaved' = Absent
    /\ UNCHANGED <<textVars, folderVars, cfgVars>>

\* Lines 1908-1910: the batch failed, process_lecture returns None.
GenerationFailed ==
    /\ pc = "analyzed"
    /\ batch_results = <<>>
    /\ pc' = "idle"
    /\ ret' = "none"
    /\ Forgotten
    /\ UNCHANGED <<textVars, folderVars, cfgVars, diskVars>>

\* Process termination, at any point of a run.
Kill ==
    /\ pc # "idle"
    /\ pc' = "idle"
    /\ ret' = "killed"
    /\ Forgotten
    /\ UNCHANGED <<textVars, folderVars, cfgVars, diskVars>>

\* --------------------------------------------- critique_and_refine_cards
\* max_retries = 3
RefineMaxRetries == 3
\* wait_time = 30 * attempt
StageWaitUnit == 30

\* An entry of a decision array: a dict (wf) with its action, or some other
\* JSON value, on which decision['stage'] = ... and decision.get(...) raise.
Decision(wf, action) == [wf |-> wf, action |-> action, stage |-> ""]
DecisionLists ==
    { <<>>, <<Decision(TRUE, "modified")>>, <<Decision(FALSE, "")>> }

\* The cards a refinement reply may carry.
RefCard(slide, text) == [slide |-> slide, text |-> text]
RefCardLists ==
    LET a == RefCard(1, Text({1}, FALSE, 0))
        b == RefCard(2, Text({1, 2}, TRUE, 0))
        c == RefCard(1, Text({}, FALSE, 0))
    IN  { <<>>, <<a>>, <<b, c>> }

\* The parsed objects the service may return to a stage's request: the stage's
\* card array ([] when the key is absent) and its decision array.  A mock
\* returns the cards it was sent and no decisions.
StageReplies(cards) ==
    IF svc.mode = "any"
      THEN [cards : RefCardLists, decisions : DecisionLists]
      ELSE { [cards |-> cards, decisions |-> <<>>] }

\* A status other than 200 or a reply without a JSON object: the iteration
\* ends without a word.  A timeout, a connection error, a JSON that does not
\* parse or any other exception: an except clause runs.
SilentFailures == {"http_error", "no_json"}
RaisingFailures == {"timeout", "connection_error", "json_error", "exception"}

\* cards_for_review: the cards of all slides, each with its slide.
RECURSIVE CardsForReview(_)
CardsForReview(cards_data) ==
    IF cards_data = <<>> THEN <<>>
    ELSE LET e == Head(cards_data)
         IN  [i \in 1..Len(e.cards) |-> RefCard(e.page_num, e.cards[i].text)]
             \o CardsForReview(Tail(cards_data))

Malformed(ds) == \E i \in 1..Len(ds) : ~ds[i].wf

\* for decision in ...: decision['stage'] = name
Tagged(ds, name) == [i \in 1..Len(ds) |-> [ds[i] EXCEPT !.stage = name]]

\* Stage 4's loop over ambiguity_decisions: the 'modified' ones are appended
\* to decisions, up to the first entry that is no dict.
RECURSIVE ModifiedDecisions(_)
ModifiedDecisions(ds) ==
    IF ds = <<>> \/ ~Head(ds).wf THEN <<>>
    ELSE (IF Head(ds).action = "modified"
            THEN <<[Head(ds) EXCEPT !.stage = "ambiguity_check"]>> ELSE <<>>)
         \o ModifiedDecisions(Tail(ds))

\* _save_refinement_logs raises on len(None) and on d.get of an entry of
\* hint_decisions or ambiguity_decisions that is no dict.
SaveLogsRaises(cards, hints, ambiguity) ==
    cards = None \/ Malformed(hints) \/ Malformed(ambiguity)

\* refinement_data, as far as the decisions go.
RefinementLog(cards, all, hints, grouping, ambiguity) ==
    Some([refined_count |-> Len(cards[1]),
          all_decisions |-> all,
          stage1 |-> SelectSeq(all, LAMBDA d : d.stage = "refinement"),
          stage2 |-> hints,
          stage3 |-> grouping,
          stage4 |-> ambiguity])

\* The slides of a card list in the order of their first card.
RECURSIVE SlidesInOrder(_, _)
SlidesInOrder(cards, seen) ==
    IF cards = <<>> THEN <<>>
    ELSE LET p == PageNumOr([page_num |-> Head(cards).slide], 1)
         IN  IF p \in seen THEN SlidesInOrder(Tail(cards), seen)
             ELSE <<p>> \o SlidesInOrder(Tail(cards), seen \cup {p})

\* _process_refined_cards: the cards without a cloze marker are dropped, the
\* rest regrouped by slide and their text processed.
process_refined_cards(cards, single) ==
    LET valid == SelectSeq(cards, LAMBDA c : c.text.groups # {})
        order == SlidesInOrder(valid, {})
        on(p) == SelectSeq(valid, LAMBDA c : PageNumOr([page_num |-> c.slide], 1) = p)
    IN  [i \in 1..Len(order) |->
            [page_num |-> order[i],
             cards |-> [j \in 1..Len(on(order[i])) |->
                          [text |-> add_bold_formatting(
                              convert_to_single_card_format(single, on(order[i])[j].text))]]]]

\* What an attempt that parsed a reply object met: a reply that was used, one
\* without cards under the stage's key, one with a decision that is no dict.
ParsedOutcomes == {"reply", "no_cards", "bad_decision"}

\* FailedAttemptCards, were a failed attempt to clear the card set.
DroppedCards(current) == Some(<<>>)

\* An attempt that fails before a reply object is parsed assigns nothing to
\* refined_cards.
FailedAttemptCards(current) == current

\* StageSleeps, were there a sleep before the first attempt too.
SleepsEveryAttempt(k, slept) == Append(slept, StageWaitUnit * k)

StageSleeps(k, slept) == IF k > 0 THEN Append(slept, StageWaitUnit * k) ELSE slept

\* The stage after Refine and after Hint.
AfterHints == IF ~single_card_mode THEN "grouping" ELSE "ambiguity"
AfterRefinement == IF add_hints THEN "hints" ELSE AfterHints

\* LastAttempt, were no attempt the last one.
NeverLastAttempt == FALSE

LastAttempt == attempt + 1 = RefineMaxRetries

\* How an iteration leaves the stage's loop: it "goes_on" to the next
\* attempt, goes to the "next" stage, makes the function "return" a value, or
\* lets an exception out of the function ("raise").
StageControl(how, ok, met, next, value) ==
    /\ attempt' = IF how = "goes_on" THEN attempt + 1 ELSE 0
    /\ sleeps' = IF how = "goes_on" THEN StageSleeps(attempt, sleeps) ELSE <<>>
    /\ lastLoop' = IF how = "goes_on" THEN lastLoop
                   ELSE LoopEnd(stage, attempt + 1, StageSleeps(attempt, sleeps), ok, met,
                                entered, parsedSeen \/ met \in ParsedOutcomes)
    /\ parsedSeen' = IF how = "goes_on" THEN parsedSeen \/ met \in ParsedOutcomes ELSE FALSE
    /\ entered' = IF how = "next" THEN refined_cards' ELSE entered
    /\ lastGood' = IF how # "goes_on" /\ ok THEN refined_cards' ELSE lastGood
    /\ retry_after' = None
    /\ stage' = IF how = "next" THEN next ELSE stage
    /\ pc' = CASE how \in {"goes_on", "next"} -> "refine"
               [] how = "return" -> "refined"
               [] how = "raise" -> "raised"
    /\ refined_cards_data' = IF how = "return" THEN Some(value) ELSE None

\* The stage's prompt and payload are built once, before its loop, from the
\* card set the stage begins with; every attempt posts that payload.
StageRequest(cards) ==
    requests' = requests \cup {Request(stage, <<>>, cards)}

StageFrame ==
    UNCHANGED <<textVars, folderVars, cfgVars, runVars, diskVars, progVars, batchVars, ret, packaged>>

\* ---- Stage 1: Refine (lines 1088-1151)
\* The card set a parsed Refine reply leaves in refined_cards.
RefineAssigned(result) == Some(result.cards)

RefineParsed ==
    /\ pc = "refine" /\ stage = "refinement"
    /\ StageRequest(CardsForReview(all_cards_data))
    /\ \E result \in StageReplies(CardsForReview(all_cards_data)) :
         LET bad == Malformed(result.decisions)
             all == all_decisions \o Tagged(result.decisions, "refinement")
         IN  /\ refined_cards' = RefineAssigned(result)
             /\ all_decisions' = IF bad THEN all_decisions ELSE all
             /\ log' = IF ~bad /\ result.cards = <<>>
                         THEN RefinementLog(Some(<<>>), all, hint_decisions,
                                            grouping_decisions, ambiguity_decisions)
                         ELSE log
             /\ CASE bad /\ ~LastAttempt ->
                       StageControl("goes_on", FALSE, "bad_decision", stage, <<>>)
                  [] bad /\ LastAttempt ->
                       StageControl("return", FALSE, "bad_decision", stage, all_cards_data)
                  [] ~bad /\ result.cards = <<>> ->
                       StageControl("return", FALSE, "no_cards", stage, all_cards_data)
                  [] OTHER ->
                       StageControl("next", TRUE, "reply", AfterRefinement, <<>>)
    /\ UNCHANGED <<hint_decisions, grouping_decisions, ambiguity_decisions, decisions>>
    /\ StageFrame

\* What follows the loop when its last attempt ended without a word: the
\* check `if not refined_cards` and, when it holds, the write of the logs.
RefineSilent ==
    /\ pc = "refine" /\ stage = "refinement"
    /\ refined_cards' = FailedAttemptCards(refined_cards)
    /\ StageRequest(CardsForReview(all_cards_data))
    /\ \E kind \in SilentFailures :
         CASE ~LastAttempt ->
                /\ StageControl("goes_on", FALSE, kind, stage, <<>>)
                /\ log' = log
           [] LastAttempt /\ refined_cards = None ->
                /\ StageControl("raise", FALSE, kind, stage, <<>>)
                /\ log' = log
           [] LastAttempt /\ refined_cards = Some(<<>>) ->
                /\ StageControl("return", FALSE, kind, stage, all_cards_data)
                /\ log' = RefinementLog(refined_cards, all_decisions, hint_decisions,
                                        grouping_decisions, ambiguity_decisions)
           [] OTHER ->
                /\ StageControl("next", FALSE, kind, AfterRefinement, <<>>)
                /\ log' = log
    /\ UNCHANGED <<all_decisions, hint_decisions, grouping_decisions,
                   ambiguity_decisions, decisions>>
    /\ StageFrame

RefineRaises ==
    /\ pc = "refine" /\ stage = "refinement"
    /\ refined_cards' = FailedAttemptCards(refined_cards)
    /\ StageRequest(CardsForReview(all_cards_data))
    /\ \E kind \in RaisingFailures :
         IF LastAttempt
           THEN StageControl("return", FALSE, kind, stage, all_cards_data)
           ELSE StageControl("goes_on", FALSE, kind, stage, <<>>)
    /\ UNCHANGED <<all_decisions, hint_decisions, grouping_decisions,
                   ambiguity_decisions, decisions, log>>
    /\ StageFrame

\* ---- Stages 2 and 3: Hint and Group (lines 1153-1253)
\* The card set a parsed reply of Hint, Group or Audit leaves in refined_cards.
StageAssigned(current, result) ==
    IF result.cards # <<>> THEN Some(result.cards) ELSE current

\* The stage after the running one, for Hint and Group.
StageAfter == IF stage = "hints" THEN AfterHints ELSE "ambiguity"

StageParsed(name) ==
    /\ pc = "refine" /\ stage = name
    /\ StageRequest(entered[1])
    /\ \E result \in StageReplies(entered[1]) :
         LET replaced == result.cards # <<>>
             bad   == replaced /\ Malformed(result.decisions)
             hints == IF name = "hints" THEN result.decisions ELSE hint_decisions
             grouping == IF name = "grouping" THEN result.decisions
                         ELSE grouping_decisions
             cards == StageAssigned(refined_cards, result)
             raises == SaveLogsRaises(cards, hints, ambiguity_decisions)
         IN  /\ refined_cards' = cards
             /\ hint_decisions' = hints
             /\ grouping_decisions' = grouping
             /\ all_decisions' = IF replaced /\ ~bad
                                   THEN all_decisions \o Tagged(result.decisions, name)
                                   ELSE all_decisions
             /\ log' = IF bad /\ LastAttempt /\ ~raises
                         THEN RefinementLog(cards, all_decisions, hints, grouping,
                                            ambiguity_decisions)
                         ELSE log
             /\ CASE ~bad ->
                       StageControl("next", replaced,
                                    IF replaced THEN "reply" ELSE "no_cards",
                                    StageAfter, <<>>)
                  [] bad /\ ~LastAttempt ->
                       StageControl("goes_on", FALSE, "bad_decision", stage, <<>>)
                  [] bad /\ LastAttempt /\ raises ->
                       StageControl("raise", FALSE, "bad_decision", stage, <<>>)
                  [] OTHER ->
                       StageControl("next", FALSE, "bad_decision", StageAfter, <<>>)
    /\ UNCHANGED <<ambiguity_decisions, decisions>>
    /\ StageFrame

StageSilent(name) ==
    /\ pc = "refine" /\ stage = name
    /\ refined_cards' = FailedAttemptCards(refined_cards)
    /\ StageRequest(entered[1])
    /\ \E kind \in SilentFailures :
         IF LastAttempt
           THEN StageControl("next", FALSE, kind, StageAfter, <<>>)
           ELSE StageControl("goes_on", FALSE, kind, stage, <<>>)
    /\ UNCHANGED <<all_decisions, hint_decisions, grouping_decisions,
                   ambiguity_decisions, decisions, log>>
    /\ StageFrame

\* The except clause of the last attempt writes the logs.
StageRaises(name) ==
    /\ pc = "refine" /\ stage = name
    /\ refined_cards' = FailedAttemptCards(refined_cards)
    /\ StageRequest(entered[1])
    /\ \E kind \in RaisingFailures :
         LET raises == SaveLogsRaises(refined_cards, hint_decisions, ambiguity_decisions)
         IN  CASE ~LastAttempt ->
                    /\ StageControl("goes_on", FALSE, kind, stage, <<>>)
                    /\ log' = log
               [] LastAttempt /\ raises ->
                    /\ StageControl("raise", FALSE, kind, stage, <<>>)
                    /\ log' = log
               [] OTHER ->
                    /\ StageControl("next", FALSE, kind, StageAfter, <<>>)
                    /\ log' = RefinementLog(refined_cards, all_decisions, hint_decisions,
                                            grouping_decisions, ambiguity_decisions)
    /\ UNCHANGED <<all_decisions, hint_decisions, grouping_decisions,
                   ambiguity_decisions, decisions>>
    /\ StageFrame

HintsParsed == StageParsed("hints")
HintsSilent == StageSilent("hints")
HintsRaises == StageRaises("hints")
GroupingParsed == StageParsed("grouping")
GroupingSilent == StageSilent("grouping")
GroupingRaises == StageRaises("grouping")

\* ---- Stage 4: Audit, and the end of the function (lines 1256-1325)
\* _save_refinement_logs, then return self._process_refined_cards(refined_cards).
FinishRefinement(ok, met, cards, ambiguity) ==
    IF SaveLogsRaises(cards, hint_decisions, ambiguity)
      THEN /\ StageControl("raise", ok, met, stage, <<>>)
           /\ log' = log
      ELSE /\ StageControl("return", ok, met, stage,
                           process_refined_cards(cards[1], single_card_mode))
           /\ log' = RefinementLog(cards, all_decisions, hint_decisions,
                                   grouping_decisions, ambiguity)

AmbiguityParsed ==
    /\ pc = "refine" /\ stage = "ambiguity"
    /\ StageRequest(entered[1])
    /\ \E result \in StageReplies(entered[1]) :
         LET replaced == result.cards # <<>>
             bad   == replaced /\ Malformed(result.decisions)
             cards == StageAssigned(refined_cards, result)
         IN  /\ refined_cards' = cards
             /\ ambiguity_decisions' = result.decisions
             /\ decisions' = IF replaced
                               THEN decisions \o ModifiedDecisions(result.decisions)
                               ELSE decisions
             /\ IF bad /\ ~LastAttempt
                  THEN /\ StageControl("goes_on", FALSE, "bad_decision", stage, <<>>)
                       /\ log' = log
                  ELSE FinishRefinement(replaced /\ ~bad,
                                        CASE bad -> "bad_decision"
                                          [] replaced -> "reply"
                                          [] OTHER -> "no_cards",
                                        cards, result.decisions)
    /\ UNCHANGED <<all_decisions, hint_decisions, grouping_decisions>>
    /\ StageFrame

AmbiguityFails ==
    /\ pc = "refine" /\ stage = "ambiguity"
    /\ refined_cards' = FailedAttemptCards(refined_cards)
    /\ StageRequest(entered[1])
    /\ \E kind \in SilentFailures \cup RaisingFailures :
         IF LastAttempt
           THEN FinishRefinement(FALSE, kind, refined_cards, ambiguity_decisions)
           ELSE /\ StageControl("goes_on", FALSE, kind, stage, <<>>)
                /\ log' = log
    /\ UNCHANGED <<all_decisions, hint_decisions, grouping_decisions,
                   ambiguity_decisions, decisions>>
    /\ StageFrame

RefinementStep ==
    \/ RefineParsed \/ RefineSilent \/ RefineRaises
    \/ HintsParsed \/ HintsSilent \/ HintsRaises
    \/ GroupingParsed \/ GroupingSilent \/ GroupingRaises
    \/ AmbiguityParsed \/ AmbiguityFails

\* ------------------------------------------- process_lecture, continued
\* Lines 1912-1936: what is done with the accumulated cards.
RunEnds(how) ==
    /\ pc' = "idle"
    /\ ret' = how
    /\ Forgotten

\* budget_mode and all_cards_data: the cards go to packaging as they are.
DispatchBudget ==
    /\ pc = "dispatch"
    /\ budget_mode /\ all_cards_data # <<>>
    /\ pc' = "package"
    /\ UNCHANGED <<textVars, folderVars, cfgVars, runVars, diskVars, progVars, loopVars, batchVars, ret,
                   requests, refVars, packaged>>

\* StartRefine, were critique_and_refine_cards called in budget mode too.
StartRefineInBudget ==
    /\ pc = "dispatch"
    /\ all_cards_data # <<>>
    /\ pc' = "refine"
    /\ stage' = "refinement"
    /\ attempt' = 0
    /\ sleeps' = <<>>
    /\ refined_cards' = None
    /\ all_decisions' = <<>>
    /\ hint_decisions' = <<>>
    /\ grouping_decisions' = <<>>
    /\ ambiguity_decisions' = <<>>
    /\ decisions' = <<>>
    /\ log' = None
    /\ refined_cards_data' = None
    /\ entered' = None
    /\ parsedSeen' = FALSE
    /\ lastGood' = None
    /\ retry_after' = None
    /\ UNCHANGED <<textVars, folderVars, cfgVars, runVars, diskVars, progVars, lastLoop, batchVars, ret,
                   requests, packaged>>

\* Otherwise, with cards: critique_and_refine_cards is called.
StartRefine ==
    /\ pc = "dispatch"
    /\ ~budget_mode /\ all_cards_data # <<>>
    /\ pc' = "refine"
    /\ stage' = "refinement"
    /\ attempt' = 0
    /\ sleeps' = <<>>
    /\ refined_cards' = None
    /\ all_decisions' = <<>>
    /\ hint_decisions' = <<>>
    /\ grouping_decisions' = <<>>
    /\ ambiguity_decisions' = <<>>
    /\ decisions' = <<>>
    /\ log' = None
    /\ refined_cards_data' = None
    /\ entered' = None
    /\ parsedSeen' = FALSE
    /\ lastGood' = None
    /\ retry_after' = None
    /\ UNCHANGED <<textVars, folderVars, cfgVars, runVars, diskVars, progVars, lastLoop, batchVars, ret,
                   requests, packaged>>

\* Without cards: "No cards generated", return None.
NoCards ==
    /\ pc = "dispatch"
    /\ all_cards_data = <<>>
    /\ RunEnds("none")
    /\ UNCHANGED <<textVars, folderVars, cfgVars, diskVars>>

\* An exception leaves critique_and_refine_cards, and process_lecture with it.
RefineRaised ==
    /\ pc = "raised"
    /\ RunEnds("raised_refine")
    /\ UNCHANGED <<textVars, folderVars, cfgVars, diskVars>>

\* The cards handed to create_anki_package.
Deck == IF budget_mode THEN all_cards_data ELSE refined_cards_data[1]

\* create_anki_package returns.
PackageWritten ==
    /\ pc \in {"package", "refined"}
    /\ packaged' = Some(Deck)
    /\ pc' = "cleanup"
    /\ UNCHANGED <<textVars, folderVars, cfgVars, runVars, diskVars, progVars, loopVars, batchVars, ret,
                   requests, refVars>>

\* create_anki_package raises.
PackageFails ==
    /\ pc \in {"package", "refined"}
    /\ RunEnds("raised_package")
    /\ UNCHANGED <<textVars, folderVars, cfgVars, diskVars>>

\* Cleanup, were the checkpoint left in place.
CleanupKeepsCheckpoint ==
    /\ pc = "cleanup"
    /\ RunEnds("apkg")
    /\ UNCHANGED <<textVars, folderVars, cfgVars, diskVars>>

\* _cleanup_temp_files unlinks the checkpoint; process_lecture returns the package.
Cleanup ==
    /\ pc = "cleanup"
    /\ ckpt' = Absent
    /\ lastSaved' = Absent
    /\ RunEnds("apkg")
    /\ UNCHANGED <<textVars, folderVars, cfgVars>>

\* ------------------------------------------------------------------ Spec
\* No attempt loop has run, no refinement call has begun, nothing is packaged.
\* ---------------------------------------------------------- process_folder
\* The documents of the folder, in the order of folder.glob("*.pdf").
MaxDocs == 3
Docs == 1..MaxDocs

\* folder_progress.json: absent, present but not loadable, or holding the
\* list completed_files.
FolderFile(state, completed) == [state |-> state, completed_files |-> completed]
NoFolderFile == FolderFile("absent", {})
BrokenFolderFile == FolderFile("corrupt", {})

\* Lines 1968-1976: completed_files as read at the start of process_folder.
LoadedFiles(wanted, file) ==
    IF wanted /\ file.state = "ok" THEN file.completed_files ELSE {}

\* What process_lecture hands back to the loop: a package path, None, or an
\* exception.
LectureReturns == {"apkg", "none"}

\* Line 1993: `if x: completed_files.add(str(pdf_file))`.
AddCompleted(x, doc, files) == IF x = "apkg" THEN files \cup {doc} ELSE files

FolderFrame ==
    UNCHANGED <<textVars, cfgVars, runVars, diskVars, progVars, loopVars, batchVars, pc, ret,
                requests, refVars, packaged>>

\* Lines 1954-1978: the folder is listed, the folder progress is loaded and
\* successful starts at the number of completed files.
StartFolder ==
    /\ folder_pc \in {"idle", "done"}
    /\ pc = "idle"
    /\ \E r \in BOOLEAN :
         LET loaded == LoadedFiles(r, folder_progress_file)
         IN  /\ folder_resume' = r
             /\ completed_files' = loaded
             /\ startFiles' = loaded
             /\ successful' = Cardinality(loaded)
    /\ file_index' = 1
    /\ processedFiles' = {}
    /\ prevRaised' = raisedFiles
    /\ raisedFiles' = {}
    /\ folder_pc' = "loop"
    /\ UNCHANGED <<folder_progress_file, finishedFiles>>
    /\ FolderFrame

\* Lines 1980-1982: a completed document is skipped.
FolderSkips ==
    /\ folder_pc = "loop" /\ file_index \in Docs
    /\ file_index \in completed_files
    /\ file_index' = file_index + 1
    /\ UNCHANGED <<folder_pc, folder_resume, folder_progress_file, completed_files,
                   successful, startFiles, processedFiles, raisedFiles, prevRaised,
                   finishedFiles>>
    /\ FolderFrame

\* Lines 1988-2002: process_lecture returned x and the folder progress was
\* written.
FolderLectureReturns ==
    /\ folder_pc = "loop" /\ file_index \in Docs
    /\ file_index \notin completed_files
    /\ \E x \in LectureReturns :
         LET files == AddCompleted(x, file_index, completed_files)
         IN  /\ completed_files' = files
             /\ finishedFiles' = AddCompleted(x, file_index, finishedFiles)
             /\ folder_progress_file' = FolderFile("ok", files)
    /\ successful' = successful + 1
    /\ processedFiles' = processedFiles \cup {file_index}
    /\ file_index' = file_index + 1
    /\ UNCHANGED <<folder_pc, folder_resume, startFiles, raisedFiles, prevRaised>>
    /\ FolderFrame

\* Lines 1989 and 2004-2006: process_lecture raised; the except clause prints
\* and the loop goes on.
FolderLectureRaises ==
    /\ folder_pc = "loop" /\ file_index \in Docs
    /\ file_index \notin completed_files
    /\ processedFiles' = processedFiles \cup {file_index}
    /\ raisedFiles' = raisedFiles \cup {file_index}
    /\ file_index' = file_index + 1
    /\ UNCHANGED <<folder_pc, folder_resume, folder_progress_file, completed_files,
                   successful, startFiles, prevRaised, finishedFiles>>
    /\ FolderFrame

\* Lines 1989-2002 and 2004-2006: process_lecture returned x, and the write of
\* the folder progress raised (OSError): in open(..., 'w'), the file being
\* left as it was, or in json.dump after the file was truncated.
FolderWriteRaises ==
    /\ folder_pc = "loop" /\ file_index \in Docs
    /\ file_index \notin completed_files
    /\ \E x \in LectureReturns :
         /\ completed_files' = AddCompleted(x, file_index, completed_files)
         /\ finishedFiles' = AddCompleted(x, file_index, finishedFiles)
    /\ folder_progress_file' \in {folder_progress_file, BrokenFolderFile}
    /\ successful' = successful + 1
    /\ processedFiles' = processedFiles \cup {file_index}
    /\ raisedFiles' = raisedFiles \cup {file_index}
    /\ file_index' = file_index + 1
    /\ UNCHANGED <<folder_pc, folder_resume, startFiles, prevRaised>>
    /\ FolderFrame

\* Lines 2008-2014: after the loop the folder progress file is unlinked when
\* successful equals the number of documents.
FolderEnds ==
    /\ folder_pc = "loop" /\ file_index = MaxDocs + 1
    /\ folder_progress_file' =
          IF successful = MaxDocs /\ folder_progress_file.state # "absent"
            THEN NoFolderFile ELSE folder_progress_file
    /\ folder_pc' = "done"
    /\ UNCHANGED <<folder_resume, completed_files, successful, file_index, startFiles,
                   processedFiles, raisedFiles, prevRaised, finishedFiles>>
    /\ FolderFrame

NoTextYet ==
    /\ card_text = <<>>
    /\ processed_text = None
    /\ reprocessed_text = None

NoFolderRun ==
    /\ folder_pc = "idle"
    /\ folder_resume = FALSE
    /\ folder_progress_file = NoFolderFile
    /\ completed_files = {}
    /\ successful = 0
    /\ file_index = 0
    /\ startFiles = {}
    /\ processedFiles = {}
    /\ raisedFiles = {}
    /\ prevRaised = {}
    /\ finishedFiles = {}

NoLoopYet ==
    /\ attempt = 0
    /\ sleeps = <<>>
    /\ lastLoop = NoLoop
    /\ entered = None
    /\ parsedSeen = FALSE
    /\ lastGood = None
    /\ retry_after = None

NoRefinementYet ==
    /\ refined_cards = None
    /\ all_decisions = <<>>
    /\ hint_decisions = <<>>
    /\ grouping_decisions = <<>>
    /\ ambiguity_decisions = <<>>
    /\ decisions = <<>>
    /\ log = None
    /\ refined_cards_data = None
    /\ packaged = None

\* No process is running and no file is on disk.
NothingRuns ==
    /\ pc = "idle"
    /\ ret = Nil
    /\ prevRet = Nil
    /\ N = 0
    /\ resume = FALSE
    /\ budget_mode = FALSE
    /\ ckpt = Absent
    /\ lastSaved = Absent
    /\ all_cards_data = <<>>
    /\ completed_slides = {}
    /\ startCompleted = NotLoaded
    /\ saved = FALSE
    /\ images = <<>>
    /\ batch_results = <<>>
    /\ reply = <<>>
    /\ requests = {}
    /\ stage = Nil
    /\ NoLoopYet
    /\ NoRefinementYet
    /\ NoFolderRun
    /\ NoTextYet

Init ==
    /\ single_card_mode \in BOOLEAN
    /\ add_hints \in BOOLEAN
    /\ svc = SlideService
    /\ NothingRuns

Next ==
    \/ StartRun
    \/ AnalyzeSucceeds
    \/ AnalyzeRetries
    \/ AnalyzeExhausted
    \/ MergeAndOpen
    \/ SaveProgress
    \/ GenerationFailed
    \/ DispatchBudget
    \/ StartRefine
    \/ NoCards
    \/ RefinementStep
    \/ RefineRaised
    \/ PackageWritten
    \/ PackageFails
    \/ Cleanup
    \/ Kill

Spec == Init /\ [][Next]_vars

\* ------------------------------------------------------------- SpecMock
InitMock ==
    /\ single_card_mode \in BOOLEAN
    /\ add_hints = FALSE
    /\ svc \in MockServices
    /\ NothingRuns

SpecMock == InitMock /\ [][Next]_vars

\* ------------------------------------------------------------ SpecLoose
InitLoose ==
    /\ single_card_mode \in BOOLEAN
    /\ add_hints = FALSE
    /\ svc = LooseService
    /\ NothingRuns

SpecLoose == InitLoose /\ [][Next]_vars

\* ------------------------------------------------------------ SpecModes
\* Between two runs the program is started with the other card mode:
\* MedicalAnkiGenerator(single_card_mode=...) in a new process.
Reconfigure ==
    /\ pc = "idle"
    /\ single_card_mode' = ~single_card_mode
    /\ UNCHANGED <<textVars, folderVars, add_hints, svc, runVars, diskVars, progVars, loopVars, batchVars,
                   pc, ret, requests, refVars, packaged>>

InitModes ==
    /\ single_card_mode \in BOOLEAN
    /\ add_hints = FALSE
    /\ svc = SlideService
    /\ NothingRuns

NextModes == Next \/ Reconfigure

SpecModes == InitModes /\ [][NextModes]_vars

\* ----------------------------------------------------------- SpecFolder
InitFolder ==
    /\ single_card_mode \in BOOLEAN
    /\ add_hints \in BOOLEAN
    /\ svc = SlideService
    /\ NothingRuns

NextFolder ==
    \/ StartFolder
    \/ FolderSkips
    \/ FolderLectureReturns
    \/ FolderLectureRaises
    \/ FolderWriteRaises
    \/ FolderEnds

SpecFolder == InitFolder /\ [][NextFolder]_vars

\* ------------------------------------------------------------- SpecMain
\* main (lines 2141-2144): the program is started on a document, which it
\* hands to process_lecture, or on a folder, which it hands to process_folder.
MainOnDocument == NoFolderRun /\ Next
MainOnFolder == pc = "idle" /\ ret = Nil /\ NextFolder

NextMain == MainOnDocument \/ MainOnFolder

SpecMain == Init /\ [][NextMain]_vars

\* ------------------------------------------------------------- SpecText
\* A card text goes through the processing of analyze_slides_batch and, when
\* the card comes back from refinement unchanged, through that of
\* _process_refined_cards.
TextFrame ==
    UNCHANGED <<folderVars, cfgVars, runVars, diskVars, progVars, loopVars, batchVars,
                pc, ret, requests, refVars, packaged>>

\* Lines 999-1004: the text of a generated card is processed.
ProcessGenerated ==
    /\ processed_text = None
    /\ processed_text' = Some(ProcessText(single_card_mode, card_text))
    /\ UNCHANGED <<card_text, reprocessed_text>>
    /\ TextFrame

\* Lines 1715-1720: the text of a refined card is processed.
ProcessRefined ==
    /\ processed_text # None /\ reprocessed_text = None
    /\ reprocessed_text' = Some(ProcessText(single_card_mode, processed_text[1]))
    /\ UNCHANGED <<card_text, processed_text>>
    /\ TextFrame

InitText ==
    /\ single_card_mode \in BOOLEAN
    /\ add_hints = FALSE
    /\ svc = SlideService
    /\ pc = "idle"
    /\ ret = Nil
    /\ prevRet = Nil
    /\ N = 0
    /\ resume = FALSE
    /\ budget_mode = FALSE
    /\ ckpt = Absent
    /\ lastSaved = Absent
    /\ all_cards_data = <<>>
    /\ completed_slides = {}
    /\ startCompleted = NotLoaded
    /\ saved = FALSE
    /\ images = <<>>
    /\ batch_results = <<>>
    /\ reply = <<>>
    /\ requests = {}
    /\ stage = Nil
    /\ NoLoopYet
    /\ NoRefinementYet
    /\ NoFolderRun
    /\ card_text \in Texts
    /\ processed_text = None
    /\ reprocessed_text = None

NextText == ProcessGenerated \/ ProcessRefined

SpecText == InitText /\ [][NextText]_vars

\* -------------------------------------------------------------- SpecAny
\* A fresh budget-mode run of process_lecture, past the rendering of its N
\* slides, against a service whose replies may hold any page ids.
InitAny ==
    /\ single_card_mode \in BOOLEAN
    /\ add_hints = TRUE
    /\ svc = AnyService
    /\ pc = "analyze"
    /\ ret = Nil
    /\ prevRet = Nil
    /\ N \in 1..MaxSlides
    /\ resume = FALSE
    /\ budget_mode = TRUE
    /\ ckpt = Absent
    /\ lastSaved = Absent
    /\ all_cards_data = <<>>
    /\ completed_slides = {}
    /\ startCompleted = NotLoaded
    /\ saved = FALSE
    /\ images = RemainingImages(N, {})
    /\ batch_results = <<>>
    /\ reply = <<>>
    /\ requests = {}
    /\ stage = Nil
    /\ NoLoopYet
    /\ NoRefinementYet
    /\ NoFolderRun
    /\ NoTextYet

NextAny ==
    \/ AnalyzeSucceeds
    \/ AnalyzeRetries
    \/ AnalyzeExhausted
    \/ MergeAndOpen
    \/ SaveProgress
    \/ GenerationFailed
    \/ DispatchBudget
    \/ NoCards
    \/ PackageWritten
    \/ PackageFails
    \/ Cleanup

SpecAny == InitAny /\ [][NextAny]_vars

\* ------------------------------------------------------------ SpecBatch
\* The ascending lists of page ids process_lecture can pass on: the slides of
\* a document that are not in a completed set.
PendingLists ==
    { SetToSeq(S) : S \in (SUBSET (1..MaxSlides)) \ {{}} }

InitBatch ==
    /\ single_card_mode \in BOOLEAN
    /\ add_hints = TRUE
    /\ svc = AnyService
    /\ pc = "analyze"
    /\ ret = Nil
    /\ prevRet = Nil
    /\ N = MaxSlides
    /\ resume = TRUE
    /\ budget_mode = FALSE
    /\ ckpt = Absent
    /\ lastSaved = Absent
    /\ all_cards_data = <<>>
    /\ completed_slides = {}
    /\ startCompleted = NotLoaded
    /\ saved = FALSE
    /\ images \in PendingLists
    /\ batch_results = <<>>
    /\ reply = <<>>
    /\ requests = {}
    /\ stage = Nil
    /\ NoLoopYet
    /\ NoRefinementYet
    /\ NoFolderRun
    /\ NoTextYet

NextBatch == AnalyzeSucceeds \/ AnalyzeRetries \/ AnalyzeExhausted

SpecBatch == InitBatch /\ [][NextBatch]_vars

\* ----------------------------------------------------------- SpecRefine
\* The card sets process_lecture can pass to critique_and_refine_cards: the
\* processed cards of one or of two slides.
RefineInputs(single) ==
    LET of(p) == [page_num |-> p, cards |-> ProcessCards(single, <<MockCard>>)]
    IN  { <<of(1)>>, <<of(1), of(2)>> }

InitRefine ==
    /\ single_card_mode \in BOOLEAN
    /\ add_hints \in BOOLEAN
    /\ svc = AnyService
    /\ pc = "refine"
    /\ ret = Nil
    /\ prevRet = Nil
    /\ N = MaxSlides
    /\ resume = TRUE
    /\ budget_mode = FALSE
    /\ all_cards_data \in RefineInputs(single_card_mode)
    /\ ckpt = ProgressFile("ok", 1..MaxSlides, all_cards_data)
    /\ lastSaved = ckpt
    /\ completed_slides = 1..MaxSlides
    /\ startCompleted = NotLoaded
    /\ saved = TRUE
    /\ images = <<>>
    /\ batch_results = <<>>
    /\ reply = <<>>
    /\ requests = {}
    /\ stage = "refinement"
    /\ NoLoopYet
    /\ NoRefinementYet
    /\ NoFolderRun
    /\ NoTextYet

SpecRefine == InitRefine /\ [][RefinementStep]_vars

\* ================================================================ claims
\* analyze_slides_batch has returned the result of a parsed reply.
Reconciled == lastLoop.stage = "generate" /\ lastLoop.ok

ResultIds == { batch_results[i].page_num : i \in 1..Len(batch_results) }

\* C1 (checked under SpecBatch): whenever analyze_slides_batch returns a
\* result that is no failure for the slides S it was given, the result holds
\* exactly one entry per page id of S: as many entries as slides, and the ids
\* of the entries are the ids of S, whatever the parsed reply contains and
\* also when S is not {1..N}.
C1_ExactlyOnePerSlide ==
    (pc = "analyzed" /\ Reconciled) =>
        /\ Len(batch_results) = Len(images)
        /\ ResultIds = SeqRange(images)

GenerationRequests == { r \in requests : r.stage = "generate" }

\* C3 (checked under Spec): a run that resumed from a checkpoint whose
\* completed-slide set is C issues generation requests for exactly the slides
\* of the document whose page id is not in C: every generation request holds
\* these slides, one is issued when there are such slides, and none is issued
\* when C covers every slide.
C3_ResumeRequestsPending ==
    (pc # "idle" /\ startCompleted.loaded) =>
        LET pending == (1..N) \ startCompleted.completed
        IN  /\ \A r \in GenerationRequests : SeqRange(r.slides) = pending
            /\ (pending = {}) => GenerationRequests = {}
            /\ (pending # {} /\ pc # "analyze") => GenerationRequests # {}

\* A checkpoint with {1} of a document of 3 slides: the request holds 2 and 3.
C3_Witness ==
    /\ startCompleted.loaded /\ startCompleted.completed = {1} /\ N = 3
    /\ GenRequest(<<2, 3>>) \in requests

\* The state an uninterrupted run over n slides reaches against the mock
\* service: the merge of the one batch into a fresh record.
Uninterrupted(n) ==
    LET all == SetToSeq(1..n)
        results == Reconcile(all, MockReply(svc.slide, all), single_card_mode)
    IN  [completed |-> MergeCompleted({}, results), cards |-> MergeCards(<<>>, results)]

\* C4 (checked under SpecMock): given a checkpoint holding slides {1..k} of N
\* as the service answers them, the merged state of the resumed run (completed
\* set and accumulated results) is the state of an uninterrupted run over the
\* N slides against the same service.
C4_ResumedEqualsUninterrupted ==
    (/\ pc = "dispatch"
     /\ startCompleted.loaded
     /\ \E k \in 1..N : /\ startCompleted.completed = 1..k
                        /\ startCompleted.cards = Uninterrupted(k).cards) =>
        /\ completed_slides = Uninterrupted(N).completed
        /\ all_cards_data = Uninterrupted(N).cards

\* The failures of an attempt that come before any reply object is parsed.
TransportFailures == GenFailures \cup SilentFailures \cup RaisingFailures

NonDecreasing(s) == \A i, j \in 1..Len(s) : i <= j => s[i] <= s[j]

C6_ExhaustionNeverRaises ==
    (/\ lastLoop.met \in TransportFailures
     /\ ~lastLoop.parsed
     /\ lastLoop.attempts = RefineMaxRetries) =>
        /\ pc # "raised"
        /\ (pc = "analyzed") => batch_results = <<>>

\* C7 (checked under Spec): the checkpoint is deleted only by the cleanup that
\* follows a packaging that returned, itself after generation produced cards
\* and, unless in budget mode, critique_and_refine_cards returned; it exists
\* when a run that saved a batch ends otherwise, and it is absent when a run
\* returns a package.
C7_DeletedOnlyAfterSuccess ==
    [][ /\ (ckpt.state # "absent" /\ ckpt'.state = "absent") =>
              /\ pc = "cleanup"
              /\ packaged # None
              /\ all_cards_data # <<>>
              /\ ~budget_mode => refined_cards_data # None
        /\ (pc # "idle" /\ pc' = "idle" /\ saved /\ ret' # "apkg") =>
              ckpt'.state = "ok"
        /\ (pc # "idle" /\ pc' = "idle" /\ ret' = "apkg") =>
              ckpt'.state = "absent" ]_vars

\* A run has returned a package and the checkpoint is gone.
C7_Witness == pc = "idle" /\ ret = "apkg" /\ ckpt.state = "absent"

\* C8 (checked under Spec): when create_anki_package raises, the checkpoint
\* stays on disk; the next run, with resume, loads it and issues no generation
\* request for a slide the checkpoint holds.
C8_PackagingFailureKeepsCheckpoint ==
    /\ (pc = "idle" /\ ret = "raised_package") => ckpt.state = "ok"
    /\ (pc # "idle" /\ prevRet = "raised_package" /\ resume) =>
          /\ startCompleted.loaded
          /\ \A r \in GenerationRequests :
                SeqRange(r.slides) \cap startCompleted.completed = {}

\* The run after a packaging failure reached packaging again, by refinement
\* alone.
C8_Witness ==
    /\ prevRet = "raised_package" /\ resume
    /\ pc = "cleanup"
    /\ GenerationRequests = {}
    /\ \E r \in requests : r.stage = "refinement"

\* C9 (checked under Spec): at every point where the process may be
\* terminated, load_progress yields at least the completed slides and the
\* accumulated results of the last save that finished.
C9_TerminationKeepsSavedWork ==
    lastSaved.state = "ok" =>
        /\ lastSaved.completed_slides \subseteq load_progress(ckpt).completed_slides
        /\ SeqRange(lastSaved.cards_data) \subseteq SeqRange(load_progress(ckpt).cards_data)

\* The loop of Hint, Group or Audit has just ended, every attempt of it having
\* failed before a reply object was parsed.
StageExhausted(name) ==
    /\ lastLoop.stage = name
    /\ lastLoop.attempts = RefineMaxRetries
    /\ lastLoop.met \in TransportFailures
    /\ ~lastLoop.parsed
    /\ attempt = 0
    /\ pc = "refine" => stage # name

\* C10 (checked under SpecRefine): when every attempt of Hint, Group or Audit
\* failed by a transport or parse failure, the card set passed on is the card
\* set that entered the stage; what an always failing Hint passes on is the
\* output of Refine, and what critique_and_refine_cards returns after an
\* always failing Audit is built from the cards that entered Audit.
C10_FailedStageKeepsCards ==
    \A name \in {"hints", "grouping", "ambiguity"} :
        StageExhausted(name) =>
            /\ refined_cards = lastLoop.entered
            /\ (pc = "refined") =>
                  refined_cards_data =
                      Some(process_refined_cards(lastLoop.entered[1], single_card_mode))

\* Hint failed three times and the next stage begins with the cards of Refine.
C10_Witness ==
    /\ StageExhausted("hints")
    /\ pc = "refine"
    /\ lastLoop.entered # None
    /\ refined_cards = lastLoop.entered

\* The decisions of a written refinement log that concern a stage: those of
\* the full list tagged with the stage, and the stage's own breakdown.
LedgerOf(written, name) ==
    { written.all_decisions[i] : i \in { j \in 1..Len(written.all_decisions) :
                                           written.all_decisions[j].stage = name } }
    \cup (IF name = "hints" THEN SeqRange(written.stage2) ELSE {})

\* C11 (checked under Spec): when every attempt of Hint failed in transport,
\* the ledger _save_refinement_logs writes holds a decision for the Hint stage
\* that records the failure.
C11_HintFailureRecorded ==
    (StageExhausted("hints") /\ log # None) => LedgerOf(log[1], "hints") # {}

LaterStages == {"hints", "grouping", "ambiguity"}

\* C12 (checked under Spec): when the Refine loop ended without a usable
\* result, whatever its attempts met, critique_and_refine_cards returns the
\* card set it was given and has issued no request for Hint, Group or Audit.
C12_RefineFailureReturnsOriginal ==
    (/\ lastLoop.stage = "refinement"
     /\ ~lastLoop.ok
     /\ pc \in {"refine", "refined", "raised"}) =>
        /\ pc = "refined"
        /\ refined_cards_data = Some(all_cards_data)
        /\ \A r \in requests : r.stage \notin LaterStages

StageRank(name) ==
    CASE name = "refinement" -> 1
      [] name = "hints"      -> 2
      [] name = "grouping"   -> 3
      [] name = "ambiguity"  -> 4
      [] OTHER               -> 0

StageRequests == { r \in requests : StageRank(r.stage) > 0 }

\* The stages that follow a successful Refine under the configuration.
EnabledLaterStages ==
    (IF add_hints THEN {"hints"} ELSE {})
    \cup (IF ~single_card_mode THEN {"grouping"} ELSE {})
    \cup {"ambiguity"}

\* Refine has produced a card set and the call has left its last loop.
AfterSuccessfulRefine ==
    /\ lastGood # None
    /\ pc \in {"refined", "raised"}

\* C13 (checked under SpecRefine): stage requests are issued in the order
\* Refine, Hint, Group, Audit; Hint only with hints enabled, Group only outside
\* single-card mode; once Refine has succeeded the call ends only after every
\* enabled later stage was requested; the request of a later stage is built
\* from the card set of the most recent successful stage; and a refinement
\* request is issued only with the batch checkpointed.
C13_StageOrder ==
    /\ (pc = "refine") => \A r \in StageRequests : StageRank(r.stage) <= StageRank(stage)
    /\ \A r \in StageRequests :
          /\ r.stage = "hints" => add_hints
          /\ r.stage = "grouping" => ~single_card_mode
    /\ AfterSuccessfulRefine =>
          \A name \in EnabledLaterStages : \E r \in StageRequests : r.stage = name
    /\ (pc = "refine" /\ stage \in LaterStages) => entered = lastGood
    /\ (StageRequests # {}) => ckpt.state = "ok"

PackagedCards ==
    { c \in UNION { SeqRange(packaged[1][i].cards) : i \in 1..Len(packaged[1]) } : TRUE }

\* C14 (checked under SpecLoose): every card handed to create_anki_package
\* holds at least one cloze marker, on the refined path, on the fallback to
\* the original cards and in budget mode.
C14_PackagedCardsHaveCloze ==
    (packaged # None) => \A c \in PackagedCards : c.text.groups # {}

\* C15 (checked under SpecModes): in single-card mode the cloze markers of
\* every card handed to create_anki_package all have group index 1, also when
\* the cards come from a checkpoint written in multi-card mode.
C15_SingleGroupPackaged ==
    (packaged # None /\ single_card_mode) =>
        \A c \in PackagedCards : c.text.groups \subseteq {1}

\* Every decision of ds stands in ledger, tagged with one of names.
InLedger(ledger, ds, names) ==
    \A i \in 1..Len(ds) :
        \E j \in 1..Len(ledger) :
            /\ ledger[j].wf = ds[i].wf
            /\ ledger[j].action = ds[i].action
            /\ ledger[j].stage \in names

RefineAppends ==
    (pc = "refine" /\ stage = "refinement" /\ lastLoop' # lastLoop /\ lastLoop'.ok) =>
        \E ds \in DecisionLists :
            all_decisions' = all_decisions \o Tagged(ds, "refinement")

\* C16 (checked under SpecRefine): when a stage succeeds and its cards replace
\* the current card set, the decisions of its reply stand, tagged with the
\* stage, in all_decisions: after Refine, Hint and Group in the list kept by
\* the run, after Audit in the all_decisions of the written log.
C16_DecisionsAppended ==
    /\ [][RefineAppends]_vars
    /\ []((lastLoop.stage = "hints" /\ lastLoop.ok) =>
              InLedger(all_decisions, hint_decisions, {"hints"}))
    /\ []((lastLoop.stage = "grouping" /\ lastLoop.ok) =>
              InLedger(all_decisions, grouping_decisions, {"grouping"}))
    /\ []((lastLoop.stage = "ambiguity" /\ lastLoop.ok /\ log # None) =>
              InLedger(log[1].all_decisions, ambiguity_decisions,
                       {"ambiguity", "ambiguity_check"}))

\* C17 (checked under SpecRefine): when critique_and_refine_cards returns
\* after at least one refinement request, the refinement log has been written.
C17_LogWrittenBeforeReturn ==
    (pc = "refined" /\ StageRequests # {}) => log # None

\* C18 (checked under SpecRefine): the decisions of a reply steer nothing.  A
\* reply with well-formed decisions ends its stage's loop with the outcome of
\* its card array, so a reply with the same cards and other decisions must do
\* the same: no stage posts again after a reply that parsed, and a loop that
\* ended on a parsed reply succeeded or found no cards.
C18_DecisionsSteerNothing ==
    /\ ~parsedSeen
    /\ lastLoop.parsed => (lastLoop.ok \/ lastLoop.met = "no_cards")

C20_FolderSurvivesFailure ==
    /\ raisedFiles \cap completed_files = {}
    /\ (folder_pc = "done") => processedFiles = Docs \ startFiles
    /\ (folder_pc = "done") => prevRaised \subseteq processedFiles

\* C21 (checked under SpecFolder): completed_files only holds documents
\* process_lecture has returned a package for, and with resume no invocation
\* of process_folder calls process_lecture on a document an earlier
\* invocation got a package for.
C21_CompletedOnlyAfterPackage ==
    /\ [](completed_files \subseteq finishedFiles)
    /\ [][ (folder_pc = "loop" /\ folder_resume /\ processedFiles' # processedFiles) =>
               file_index \notin finishedFiles ]_vars

\* C22 (checked under Spec): when a run with resume starts and the checkpoint
\* file is absent or does not unpickle, load_progress yields nothing and the
\* run goes on from a fresh record: no slide completed, no cards, every slide
\* of the document pending, and no exception.
C22_UnreadableCheckpointIsAbsent ==
    [][ (pc = "idle" /\ pc' # "idle" /\ resume' /\ ckpt.state \in {"absent", "corrupt"}) =>
            /\ ~startCompleted'.loaded
            /\ completed_slides' = {}
            /\ all_cards_data' = <<>>
            /\ images' = SetToSeq(1..N')
            /\ pc' = "analyze"
            /\ ckpt' = ckpt ]_vars

\* A run with resume found a checkpoint that does not unpickle and its batch
\* over all slides has returned.
C22_Witness ==
    /\ pc = "analyzed" /\ resume
    /\ ckpt.state = "corrupt"
    /\ batch_results # <<>>
    /\ images = SetToSeq(1..N)

\* The record b holds every completed slide and every result of the record a.
Keeps(a, b) ==
    /\ b.state = "ok"
    /\ a.completed_slides \subseteq b.completed_slides
    /\ SeqRange(a.cards_data) \subseteq SeqRange(b.cards_data)

SaveKeeps ==
    (pc = "saving" /\ pc' = "dispatch" /\ resume /\ lastSaved.state = "ok"
        /\ lastSaved.completed_slides \subseteq 1..N) =>
        Keeps(lastSaved, ckpt')

UnfinishedRunKeeps ==
    (pc # "idle" /\ pc' = "idle" /\ ret' # "apkg" /\ resume /\ lastSaved.state = "ok") =>
        Keeps(lastSaved, ckpt')

\* C23 (checked under Spec): in runs with resume, every save of the
\* checkpoint holds the completed slides and the results of the save before
\* it, and when a run ends without having returned a package the checkpoint
\* file still holds them.
C23_CheckpointOnlyGrows == [][SaveKeeps /\ UnfinishedRunKeeps]_vars

\* The number of entries of results that carry page id p.
EntriesFor(results, p) ==
    Cardinality({ i \in 1..Len(results) : results[i].page_num = p })

\* C24 (checked under Spec): a saved checkpoint holds in cards_data one entry
\* for every slide of completed_slides, the slides without cards included.
C24_OneResultPerCompletedSlide ==
    (ckpt.state = "ok") =>
        \A p \in ckpt.completed_slides : EntriesFor(ckpt.cards_data, p) = 1

\* C25 (checked under Spec): in a run with budget_mode no refinement request
\* is issued and critique_and_refine_cards is not entered; the cards handed
\* to create_anki_package are all_cards_data, the loaded and the generated
\* results as they were saved.
C25_BudgetSkipsRefinement ==
    budget_mode =>
        /\ StageRequests = {}
        /\ pc \notin {"refine", "refined", "raised"}
        /\ (pc = "cleanup") =>
              /\ packaged = Some(all_cards_data)
              /\ saved => all_cards_data = ckpt.cards_data

\* A run in budget mode generated cards and wrote its package.
C25_Witness ==
    /\ budget_mode /\ pc = "cleanup"
    /\ GenerationRequests # {}
    /\ packaged # None /\ packaged[1] # <<>>

\* The ends of an attempt whose reply had status 200 and gave no usable
\* object: no JSON found, a JSON that does not parse, or (refinement stages)
\* an object without the stage's key, which the code reads as an empty list.
ParseFailures == {"no_json", "json_error", "no_cards"}

\* C26 (checked under SpecRefine): a loop whose last attempt ended in a parse
\* failure has used all its attempts: such a reply is retried while attempts
\* remain and never ends the loop early.
C26_ParseFailureIsRetried ==
    (lastLoop.met \in ParseFailures) =>
        lastLoop.attempts = (IF lastLoop.stage = "generate" THEN GenMaxRetries
                             ELSE RefineMaxRetries)

\* C27 (checked under Spec): a loop that made n attempts slept n - 1 times,
\* never before its first attempt, and the whole seconds of the wait before
\* attempt k > 1 are 2^(k-1), the rest being the jitter below one second; the
\* code has no cap on the wait.
C27_BackoffIsExponential ==
    (lastLoop.attempts > 0) =>
        /\ Len(lastLoop.sleeps) = lastLoop.attempts - 1
        /\ \A i \in 1..Len(lastLoop.sleeps) : lastLoop.sleeps[i] = Pow2(i)

\* The waits of the generation loop up to the attempt a step has made.
SleptAfter == IF pc' = "analyze" THEN sleeps' ELSE lastLoop'.sleeps

\* C28 (checked under Spec): a failed generation attempt of status 429 is
\* followed by another attempt while attempts remain, and when its reply
\* carried a wait hint, the wait before that attempt is the hint.
C28_WaitHintIsHonoured ==
    [][ (pc = "analyze" /\ retry_after # None /\ pc' \in {"analyze", "analyzed"}) =>
            /\ attempt < GenMaxRetries
            /\ SleptAfter # <<>>
            /\ SleptAfter[Len(SleptAfter)] = retry_after[1] ]_vars

\* The batch and card-set sizes the timeouts are compared over.
BatchSizes == 1..20

\* C29 (checked under Spec): the timeout of a generation request does
\* not decrease with the number of slides and is larger for some larger
\* batch; the timeout of a refinement request is smaller than the timeout its
\* stage gives to any larger card set.
C29_TimeoutGrowsWithSize ==
    /\ \A r \in GenerationRequests, flex \in BOOLEAN :
          LET n == Len(r.slides)
          IN  /\ \A m \in BatchSizes :
                    m >= n => timeout_seconds(m, flex) >= timeout_seconds(n, flex)
              /\ \E m \in BatchSizes : timeout_seconds(m, flex) > timeout_seconds(n, flex)
    /\ \A r \in StageRequests :
          \A m \in BatchSizes :
              m > Len(r.cards) => StageTimeout(r.stage, m) > StageTimeout(r.stage, Len(r.cards))

\* C30 (checked under SpecBatch): the list analyze_slides_batch returns for a
\* parsed reply is in ascending order of the page_num of its entries.
C30_ResultSortedByPage ==
    (pc = "analyzed" /\ Reconciled) =>
        \A i, j \in 1..Len(batch_results) :
            i <= j => batch_results[i].page_num <= batch_results[j].page_num

\* The contents of the cloze markers of a text, in order: the tokens between
\* an opening and the first closing after it.
RECURSIVE MarkerContents(_, _, _, _)
MarkerContents(tokens, i, inside, content) ==
    IF i > Len(tokens) THEN <<>>
    ELSE IF ~inside
           THEN MarkerContents(tokens, i + 1, tokens[i] \in Opening, <<>>)
           ELSE IF tokens[i] = "}}"
                  THEN <<content>> \o MarkerContents(tokens, i + 1, FALSE, <<>>)
                  ELSE MarkerContents(tokens, i + 1, TRUE, Append(content, tokens[i]))

\* C31 (checked under SpecText): the content of every cloze marker of a text
\* is the same before and after add_bold_formatting.
C31_BoldKeepsClozeContent ==
    (processed_text # None) =>
        MarkerContents(processed_text[1], 1, FALSE, <<>>)
            = MarkerContents(card_text, 1, FALSE, <<>>)

\* C37 (checked under SpecText): processing a processed text again gives the
\* text the first processing gave.
C37_ProcessingIsIdempotent ==
    (reprocessed_text # None) => reprocessed_text = processed_text

\* C32 (checked under SpecFolder): when process_folder removes the folder
\* progress file, every document of the folder is in completed_files, each
\* with a package returned for it in this or an earlier invocation.
C32_FolderFileDeletedWhenAllDone ==
    [][ (folder_progress_file.state # "absent" /\ folder_progress_file'.state = "absent") =>
            /\ completed_files = Docs
            /\ Docs \subseteq finishedFiles ]_vars

\* A step of a stage's loop whose attempt raised after its reply was parsed:
\* the first such attempt of a loop that goes on, or the attempt a loop ends
\* with.
RaisedAfterParse ==
    /\ pc = "refine"
    /\ \/ attempt' = attempt + 1 /\ parsedSeen' /\ ~parsedSeen
       \/ lastLoop' # lastLoop /\ lastLoop'.met = "bad_decision"

\* C33 (checked under SpecRefine): an attempt of a refinement stage that
\* raises after its reply was parsed leaves refined_cards and all_decisions as
\* they were before the attempt.
C33_FailedAttemptChangesNothing ==
    [][ RaisedAfterParse =>
            /\ refined_cards' = refined_cards
            /\ all_decisions' = all_decisions ]_vars

\* C34 (checked under Spec): the card set handed to create_anki_package has
\* at least one slide with at least one card, so no run packages an empty
\* deck, clears the checkpoint and returns the package.
C34_PackagedDeckIsNotEmpty ==
    (packaged # None) =>
        /\ packaged[1] # <<>>
        /\ \E i \in 1..Len(packaged[1]) : packaged[1][i].cards # <<>>

\* The page ids a run may hold: the slides of its document and the ids it
\* loaded from the checkpoint it resumed from.
DocumentIds == (1..N) \cup startCompleted.completed

\* C35 (checked under SpecAny): every page id the run puts in the completed-slide
\* set, and with it in the checkpoint it saves, and every page id of an entry
\* handed to create_anki_package is the id of a slide of the document.
C35_PageIdsAreSlides ==
    /\ (pc # "idle") => completed_slides \subseteq DocumentIds
    /\ (pc # "idle" /\ saved) => ckpt.completed_slides \subseteq DocumentIds
    /\ (packaged # None) =>
          \A i \in 1..Len(packaged[1]) : packaged[1][i].page_num \in DocumentIds

\* C36 (checked under SpecAny): once a fresh run over slides 1..N has saved
\* the checkpoint after its generation batch, the completed-slide set of the
\* checkpoint holds every id of 1..N, and a run that resumes the document from
\* it has no slide left to send to analyze_slides_batch.
C36_FreshCheckpointIsComplete ==
    (~resume /\ saved /\ pc # "idle" /\ ckpt.state = "ok") =>
        /\ (1..N) \subseteq ckpt.completed_slides
        /\ RemainingImages(N, load_progress(ckpt).completed_slides) = <<>>

\* A fresh run over at least two slides has saved its checkpoint after a reply
\* that named none of the slides of the document.
C36_Witness ==
    /\ ~resume /\ saved /\ pc # "idle" /\ ckpt.state = "ok"
    /\ N >= 2
    /\ \A i \in 1..Len(reply) : PageNumOr(reply[i], 0) \notin 1..N

\* Every decision of a stage's breakdown is in the full list under the
\* stage's tag.
InFullList(record, breakdown, name) ==
    \A i \in 1..Len(breakdown) :
        [breakdown[i] EXCEPT !.stage = name] \in SeqRange(record.all_decisions)

\* C38 (checked under SpecRefine): in the record written by
\* _save_refinement_logs every decision listed under the breakdown of Refine,
\* Hint, Group or Audit is in all_decisions with the tag of its stage.
C38_BreakdownAgreesWithLedger ==
    (log # None) =>
        /\ InFullList(log[1], log[1].stage1, "refinement")
        /\ InFullList(log[1], log[1].stage2, "hints")
        /\ InFullList(log[1], log[1].stage3, "grouping")
        /\ InFullList(log[1], log[1].stage4, "ambiguity_check")

\* The attempt counters stay within max_retries: a loop that is running has
\* made fewer than max_retries requests, and a loop that has ended made at
\* most max_retries.
AttemptsBounded ==
    /\ (pc = "analyze") => attempt < GenMaxRetries
    /\ (pc = "refine") => attempt < RefineMaxRetries
    /\ (lastLoop.stage = "generate") => lastLoop.attempts <= GenMaxRetries
    /\ (StageRank(lastLoop.stage) > 0) => lastLoop.attempts <= RefineMaxRetries

\* A step that issues a request is an attempt of the running loop: it counts
\* in attempt or ends the loop.
RequestIsAttempt ==
    (requests' # requests /\ pc \in {"analyze", "refine"}) =>
        \/ attempt' = attempt + 1
        \/ pc' # pc
        \/ stage' # stage

\* A run enters the generation loop only at its start and the loop of Refine
\* only from the dispatch, and moves from a stage only to a later one.
LoopsEnteredOnce ==
    /\ (pc # "analyze" /\ pc' = "analyze") => pc = "idle"
    /\ (pc # "refine" /\ pc' = "refine") => (pc = "dispatch" /\ stage' = "refinement")
    /\ (pc = "refine" /\ pc' = "refine" /\ stage' # stage) =>
          StageRank(stage') > StageRank(stage)
    /\ (pc = "refine" /\ pc' = "refine" /\ stage' = stage) => attempt' = attempt + 1

\* process_folder goes through the documents in order and hands a document
\* to process_lecture only if it has not done so in this invocation.
DocumentsOnce ==
    /\ (processedFiles' # processedFiles /\ folder_pc = "loop") =>
          /\ file_index \notin processedFiles
          /\ processedFiles' = processedFiles \cup {file_index}
    /\ (folder_pc = "loop" /\ file_index' # file_index) => file_index' = file_index + 1
    /\ (folder_pc = "loop") => file_index \in 1..(MaxDocs + 1)

\* C39 (checked under SpecMain): a run of process_lecture issues at most 3
\* generation requests and at most 3 requests per refinement stage, each loop
\* being entered once, and process_folder hands each document of the folder to
\* process_lecture at most once per invocation, so both end.
C39_BoundedRequests ==
    /\ []AttemptsBounded
    /\ [][RequestIsAttempt /\ LoopsEnteredOnce /\ DocumentsOnce]_vars

\* The generation loop has ended after 3 failed requests, a stage's loop after
\* 3 requests, and process_folder after a document raised and one returned.
C39_GenWitness ==
    lastLoop.stage = "generate" /\ lastLoop.attempts = GenMaxRetries /\ ~lastLoop.ok
C39_StageWitness ==
    StageRank(lastLoop.stage) > 1 /\ lastLoop.attempts = RefineMaxRetries
C39_Witness ==
    \/ C39_GenWitness /\ pc = "analyzed"
    \/ C39_StageWitness /\ pc \in {"refine", "refined"}
    \/ folder_pc = "done" /\ Cardinality(processedFiles) = MaxDocs /\ raisedFiles # {}
====
